---- MODULE Spec2Model ----
(***************************************************************************)
(* Model of mlx/backend/cpu/quantized.cpp: the sub-byte bit codec, the     *)
(* group-wise affine quantizer, the dequantize-multiply kernels and the    *)
(* dispatch / batching layer.                                              *)
(*                                                                         *)
(* Conventions.                                                            *)
(*  - A buffer is the sequence of its elements; a C pointer is a 0-based   *)
(*    offset into one (At(buf, i) reads element i).  An element of an      *)
(*    output buffer that was never stored to reads Unwritten.              *)
(*  - A byte is an integer in 0..255.  A 64-bit accumulator (uint64_t) is  *)
(*    the set of its one-bit positions, so that |, &, << and >> are exact  *)
(*    for all 64 bits.                                                     *)
(*  - Floating-point values are exact numbers: inputs are integers (in the *)
(*    quantizer, multiples of eps/2), a scale is a fraction <<num, den>>.  *)
(*    Rounding of float arithmetic is not modelled; std::rint is           *)
(*    round-half-to-even on exact fractions.                               *)
(***************************************************************************)
EXTENDS Integers, Sequences, FiniteSets, TLC

VARIABLES
  \* codec round trip: the codes, the packed bytes, the decoded codes
  c_pc, c_bits, c_codes, c_packed, c_decoded,
  \* fast::AffineQuantize: its parameters, input and three outputs, the
  \* arrays registered with the command encoder
  q_pc, q_dtype, q_bits, q_group_size, q_w, q_out, q_scales, q_biases, q_error,
  q_encoder,
  \* one kernel call: its template parameters and arguments, its result
  \* buffer, the codes _qmm_t decoded, and the final state of _qmm_t_simd run
  \* on the same arguments
  k_pc, k_in, k_res, k_decoded, k_simd,
  \* QuantizedMatmul / GatherQMM: the primitive's fields and input arrays, the
  \* arrays captured by the dispatched task, the output buffer, the exception
  \* that left the task and its what(), the kernel specializations the task
  \* called, the arrays registered with the command encoder
  m_pc, m_in, m_task, m_out, m_error, m_what, m_calls, m_encoder

codecVars == <<c_pc, c_bits, c_codes, c_packed, c_decoded>>
quantVars ==
  <<q_pc, q_dtype, q_bits, q_group_size, q_w, q_out, q_scales, q_biases, q_error,
    q_encoder>>
kernVars == <<k_pc, k_in, k_res, k_decoded, k_simd>>
matmulVars ==
  <<m_pc, m_in, m_task, m_out, m_error, m_what, m_calls, m_encoder>>
vars == <<codecVars, quantVars, kernVars, matmulVars>>

(***************************************************************************)
(* Generic helpers                                                         *)
(***************************************************************************)
At(buf, i) == buf[i + 1]

BufLen(mem) == Len(mem)

Unwritten == "?"

Blank(n) == [i \in 1..n |-> Unwritten]

\* mem after storing the values of sequence s at offsets addr, addr+1, ...
Store(mem, addr, s) ==
  SubSeq(mem, 1, addr) \o Blank(addr - Len(mem)) \o s
    \o SubSeq(mem, addr + Len(s) + 1, Len(mem))

\* for (i = lo; i < hi; i++) st = Body(st, i).  The range is split in halves
\* and each half is evaluated before the next one starts, which keeps the
\* depth of evaluation logarithmic in the trip count.
RECURSIVE Loop(_, _, _, _)
Loop(Body(_, _), st, lo, hi) ==
  IF lo >= hi THEN st
  ELSE IF hi = lo + 1 THEN Body(st, lo)
  ELSE LET mid == (lo + hi) \div 2
           s1 == Loop(Body, st, lo, mid)
       IN IF s1 = s1 THEN Loop(Body, s1, mid, hi) ELSE s1

Pow2(n) == 2 ^ n

Abs(x) == IF x < 0 THEN -x ELSE x

RECURSIVE BitAnd(_, _)
BitAnd(a, b) ==
  IF a = 0 \/ b = 0 THEN 0
  ELSE (a % 2) * (b % 2) + 2 * BitAnd(a \div 2, b \div 2)

Shr(a, n) == a \div Pow2(n)

Shl(a, n) == a * Pow2(n)

\* uint64_t values as sets of one-bit positions; U64Of converts a value
\* below 2^16 (a clamped code is below 2^8)
U64Of(n) == {i \in 0..15 : (n \div Pow2(i)) % 2 = 1}

U64Shl(s, n) == {p + n : p \in {q \in s : q + n <= 63}}

U64Shr(s, n) == {p - n : p \in {q \in s : q >= n}}

U64Or(s, t) == s \cup t

U64And(s, t) == s \cap t

\* the bits lo..hi set: 0xff is Mask(0, 7), 0xff00 is Mask(8, 15)
Mask(lo, hi) == lo..hi

RECURSIVE SumPow(_)
SumPow(s) ==
  IF s = {} THEN 0
  ELSE LET p == CHOOSE q \in s : TRUE IN Pow2(p) + SumPow(s \ {p})

\* conversion of a uint64_t to uint8_t keeps the low 8 bits
ToU8(s) == SumPow(s \cap 0..7)

\* the four bytes of the low 32 bits, most significant first
BE32Bytes(s) ==
  << ToU8(U64Shr(s, 24)), ToU8(U64Shr(s, 16)), ToU8(U64Shr(s, 8)), ToU8(s) >>

\* a uint32_t stored in memory: its four bytes, least significant first
LE32Bytes(s) ==
  << ToU8(s), ToU8(U64Shr(s, 8)), ToU8(U64Shr(s, 16)), ToU8(U64Shr(s, 24)) >>

(***************************************************************************)
(* Bit-width arithmetic                                                    *)
(***************************************************************************)
BitWidths == {2, 3, 4, 5, 6, 8}

GroupSizes == {32, 64, 128}

get_pack_factor(bits, wsize) ==
  IF bits = 3 \/ bits = 5 THEN 8 ELSE IF bits = 6 THEN 4 ELSE wsize \div bits

is_power_of_2(bits) == BitAnd(bits, bits - 1) = 0

get_bytes_per_pack(bits, wsize) ==
  IF is_power_of_2(bits) THEN wsize \div 8 ELSE IF bits = 5 THEN 5 ELSE 3

(***************************************************************************)
(* Decode: extract_bits for 3, 5 and 6 bits.  w_in is the byte buffer and  *)
(* pos the offset of the pack; the result is the w_out array.              *)
(***************************************************************************)
extract_bits(bits, w_in, pos) ==
  LET b0 == At(w_in, pos)
      b1 == At(w_in, pos + 1)
      b2 == At(w_in, pos + 2)
  IN IF bits = 3 THEN
       << BitAnd(b0, 7),
          Shr(BitAnd(b0, 56), 3),
          Shr(BitAnd(b0, 192), 6) + Shl(BitAnd(b1, 1), 2),
          Shr(BitAnd(b1, 14), 1),
          Shr(BitAnd(b1, 112), 4),
          Shr(BitAnd(b1, 128), 7) + Shl(BitAnd(b2, 3), 1),
          Shr(BitAnd(b2, 28), 2),
          Shr(BitAnd(b2, 224), 5) >>
     ELSE IF bits = 5 THEN
       LET b3 == At(w_in, pos + 3)
           b4 == At(w_in, pos + 4)
       IN << BitAnd(b0, 31),
             Shr(BitAnd(b0, 224), 5) + Shl(BitAnd(b1, 3), 3),
             Shr(BitAnd(b1, 124), 2),
             Shr(BitAnd(b1, 128), 7) + Shl(BitAnd(b2, 15), 1),
             Shr(BitAnd(b2, 240), 4) + Shl(BitAnd(b3, 1), 4),
             Shr(BitAnd(b3, 62), 1),
             Shr(BitAnd(b3, 192), 6) + Shl(BitAnd(b4, 7), 2),
             Shr(BitAnd(b4, 248), 3) >>
     ELSE
       << BitAnd(b0, 63),
          BitAnd(Shr(b0, 6), 3) + Shl(BitAnd(b1, 15), 2),
          BitAnd(Shr(b1, 4), 15) + Shl(BitAnd(b2, 3), 4),
          BitAnd(Shr(b2, 2), 63) >>

(***************************************************************************)
(* Decode for 2, 4 and 8 bits: the byte-wise loop of _qmm / _qmm_t.        *)
(* One byte yields get_pack_factor(bits, 8) codes, low bits first.         *)
(***************************************************************************)
RECURSIVE byte_codes(_, _, _)
byte_codes(bits, wi, p) ==
  IF p = 0 THEN << >>
  ELSE << BitAnd(wi, Pow2(bits) - 1) >>
         \o byte_codes(bits, IF bits # 8 THEN Shr(wi, bits) ELSE wi, p - 1)

\* the codes the kernels read from the pack at byte offset pos
decode_pack(bits, w, pos) ==
  IF bits = 3 \/ bits = 5 \/ bits = 6 THEN extract_bits(bits, w, pos)
  ELSE byte_codes(bits, At(w, pos), get_pack_factor(bits, 8))

\* the code of element e of a packed buffer, as the kernels walk it: packs of
\* get_pack_factor(bits, 8) codes, bytes_per_pack bytes apart (one byte apart
\* for 2, 4 and 8 bits)
code_at(bits, w, e) ==
  LET pack_factor == get_pack_factor(bits, 8)
      stride == IF bits = 3 \/ bits = 5 \/ bits = 6
                THEN get_bytes_per_pack(bits, 8) ELSE 1
  IN decode_pack(bits, w, (e \div pack_factor) * stride)[(e % pack_factor) + 1]

(***************************************************************************)
(* Encode: one iteration j of the packing loop of quantize.  codes are the *)
(* el_per_int clamped values; the result is the bytes stored to out.       *)
(***************************************************************************)
RECURSIVE pack_acc(_, _, _)
pack_acc(bits, codes, k) ==
  IF k = 0 THEN {}
  ELSE U64Or(pack_acc(bits, codes, k - 1),
             U64Shl(U64Of(codes[k]), (k - 1) * bits))

\* out[idx] = v for an out of element type U: a uint32_t is stored as its
\* four bytes at byte offset 4*idx, a uint8_t keeps the low 8 bits
StoreU(out, U, idx, v) ==
  IF U = "uint32" THEN Store(out, 4 * idx, LE32Bytes(v))
  ELSE Store(out, idx, << ToU8(v) >>)

\* the stores of iteration j: out_el is the accumulated uint64_t
pack_store(out, U, out_idx, j, bits, codes) ==
  LET out_el == pack_acc(bits, codes, get_pack_factor(bits, 32))
      bytes_per_pack == get_bytes_per_pack(bits, 8)
      o0 == out_idx + bytes_per_pack * j
  IN IF is_power_of_2(bits) THEN StoreU(out, U, out_idx + j, out_el)
     ELSE IF bits = 5 THEN
       LET m0 == StoreU(out, U, o0, U64And(out_el, Mask(0, 7)))
           m1 == StoreU(m0, U, o0 + 1, U64Shr(U64And(out_el, Mask(8, 15)), 8))
           m2 == StoreU(m1, U, o0 + 2, U64Shr(U64And(out_el, Mask(16, 23)), 16))
           m3 == StoreU(m2, U, o0 + 3, U64Shr(U64And(out_el, Mask(24, 31)), 24))
       IN StoreU(m3, U, o0 + 4, U64Shr(U64And(out_el, Mask(32, 39)), 32))
     ELSE
       LET m0 == StoreU(out, U, o0, U64And(out_el, Mask(0, 7)))
           m1 == StoreU(m0, U, o0 + 1, U64Shr(U64And(out_el, Mask(8, 15)), 8))
       IN StoreU(m1, U, o0 + 2, U64Shr(U64And(out_el, Mask(16, 23)), 16))

\* the element type of the packed output chosen by AffineQuantize::eval_cpu
OutType(bits) == IF is_power_of_2(bits) THEN "uint32" ELSE "uint8"

\* what a kernel decodes from the bytes of one encoder pack: for 2, 4 and 8
\* bits the four bytes of the word in address order, else one extract_bits
RECURSIVE decode_bytes(_, _, _)
decode_bytes(bits, w, pos) ==
  IF pos >= BufLen(w) THEN << >>
  ELSE decode_pack(bits, w, pos)
         \o decode_bytes(bits, w,
              pos + (IF is_power_of_2(bits) THEN 1
                     ELSE get_bytes_per_pack(bits, 8)))

(***************************************************************************)
(* Group-wise affine quantizer (quantize).                                 *)
(***************************************************************************)
\* float eps = 1e-7, in model units: a unit is eps/2
eps == 2

\* n / d rounded toward minus infinity
RintDown(n, d) == IF d < 0 THEN (-n) \div (-d) ELSE n \div d

\* std::rint(n / d), d # 0: round to nearest, ties to even
Rint(n, d) ==
  LET nn == IF d < 0 THEN -n ELSE n
      dd == Abs(d)
      q == nn \div dd
      r == nn % dd
  IN IF 2 * r < dd THEN q
     ELSE IF 2 * r > dd THEN q + 1
     ELSE IF q % 2 = 0 THEN q ELSE q + 1

\* the fraction n / d with a positive denominator
Frac(n, d) == IF d < 0 THEN << -n, -d >> ELSE << n, d >>

\* the values of the group_size elements starting at w_idx
group_vals(w, w_idx, group_size) ==
  {At(w, w_idx + j) : j \in 0..(group_size - 1)}

\* the running std::max / std::min over the group
group_max(w, w_idx, group_size) ==
  LET vals == group_vals(w, w_idx, group_size)
  IN CHOOSE m \in vals : \A v \in vals : v <= m

group_min(w, w_idx, group_size) ==
  LET vals == group_vals(w, w_idx, group_size)
  IN CHOOSE m \in vals : \A v \in vals : m <= v

\* the extremum the scale is anchored at, always the maximum
anchor_max(mask, w_min, w_max) == w_max

\* T edge = mask ? w_min : w_max
anchor_edge(mask, w_min, w_max) == IF mask THEN w_min ELSE w_max

\* scale, bias (and edge, q0) of the group starting at w_idx
group_params(w, w_idx, bits, group_size) ==
  LET n_bins == Pow2(bits) - 1
      w_max == group_max(w, w_idx, group_size)
      w_min == group_min(w, w_idx, group_size)
      mask == Abs(w_min) > Abs(w_max)
      s0 == IF (w_max - w_min) > eps * n_bins
            THEN << w_max - w_min, n_bins >> ELSE << eps, 1 >>
      s1 == IF mask THEN s0 ELSE << -s0[1], s0[2] >>
      edge == anchor_edge(mask, w_min, w_max)
      q0 == Rint(edge * s1[2], s1[1])
  IN [ scale |-> IF q0 # 0 THEN Frac(edge, q0) ELSE s1,
       bias |-> IF q0 # 0 THEN edge ELSE 0,
       edge |-> edge,
       q0 |-> q0 ]

\* the clamped code of one element
quant_code(w_el, scale, bias, n_bins) ==
  LET r == Rint((w_el - bias) * scale[2], scale[1])
      lo == IF r < 0 THEN 0 ELSE r
  IN IF n_bins < lo THEN n_bins ELSE lo

\* the body of the loop over groups i; st holds the three output buffers
quantize_group(st, U, w, bits, group_size, i) ==
  LET el_per_int == get_pack_factor(bits, 32)
      bytes_per_pack == get_bytes_per_pack(bits, 8)
      int_per_group == (group_size * bytes_per_pack) \div el_per_int
      w_idx == i * group_size
      gp == group_params(w, w_idx, bits, group_size)
      out_idx == i * int_per_group
      \* the loop over j: packs el_per_int clamped codes per iteration
      PackJ(out, j) ==
        pack_store(out, U, out_idx, j, bits,
                   [k \in 1..el_per_int |->
                      quant_code(At(w, w_idx + j * el_per_int + (k - 1)),
                                 gp.scale, gp.bias, Pow2(bits) - 1)])
  IN [ out |-> Loop(PackJ, st.out, 0, int_per_group \div bytes_per_pack),
       scales |-> Store(st.scales, i, << gp.scale >>),
       biases |-> Store(st.biases, i, << gp.bias >>) ]

quantize(w, U, bits, group_size, w_size) ==
  LET n_groups == w_size \div group_size
      Group(st, i) == quantize_group(st, U, w, bits, group_size, i)
  IN Loop(Group, [out |-> << >>, scales |-> << >>, biases |-> << >>],
          0, n_groups)

\* dispatch_quantize<T, U>: w.size() is the element count of the input
dispatch_quantize(w, U, bits, group_size) ==
  quantize(w, U, bits, group_size, BufLen(w))

FloatTypes == {"float32", "float16", "bfloat16"}
(***************************************************************************)
(* Dequantize-multiply kernels.  Every kernel takes the buffers and the    *)
(* offsets its pointer arguments hold (w0 counts uint32_t words), and returns*)
(* the result buffer after its stores.  The loop state st holds the        *)
(* cursors of the code under their names in the code.                      *)
(***************************************************************************)
\* *p = v and *p += v on the result buffer
SetAt(res, i, v) == [res EXCEPT ![i + 1] = v]

\* the store that drops the value accumulated so far
OverwriteAt(res, i, v) == [res EXCEPT ![i + 1] = v]

AddAt(res, i, v) == [res EXCEPT ![i + 1] = @ + v]

\* the bias added to the code before scaling
dequant_inner(scale, code, bias) == scale * (code + bias)

\* the dequantized weight scale * code + bias
dequant(scale, code, bias) == scale * code + bias

\* trip count of for (n = 0; n < limit; n += step)
Trips(limit, step) == (limit + step - 1) \div step

\* _qmm<T, bits, group_size>: result = x @ W, W stored K x N
_qmm(result, r0, x, x0, w, w0, scales, s0, biases, b0, bits, group_size, M, N, K) ==
  LET bitmask == Pow2(bits) - 1
      pack_factor == get_pack_factor(bits, 8)
      bytes_per_pack == get_bytes_per_pack(bits, 8)
      packs_in_group == group_size \div pack_factor
      \* the loops over p of the two decode branches
      PExtract(st, p) ==
        [st EXCEPT !.res = AddAt(st.res, st.result_local,
                                 st.xi * dequant(st.scale, st.wl[p + 1], st.bias)),
                   !.result_local = @ + 1]
      PByte(st, p) ==
        [st EXCEPT !.res = AddAt(st.res, st.result_local,
                                 st.xi * dequant(st.scale,
                                                 BitAnd(st.wi, bitmask),
                                                 st.bias)),
                   !.result_local = @ + 1,
                   !.wi = IF bits # 8 THEN Shr(@, bits) ELSE @]
      Ng(st, ng) ==
        IF bits = 3 \/ bits = 5 \/ bits = 6
        THEN LET s1 == Loop(PExtract,
                            [st EXCEPT !.wl = extract_bits(bits, w, st.w_local)],
                            0, pack_factor)
             IN [s1 EXCEPT !.w_local = @ + bytes_per_pack]
        ELSE Loop(PByte,
                  [st EXCEPT !.wi = At(w, st.w_local), !.w_local = @ + 1],
                  0, pack_factor)
      NGroup(st, n) ==
        Loop(Ng,
             [st EXCEPT !.scale = At(scales, st.scales_local),
                        !.bias = At(biases, st.biases_local),
                        !.scales_local = @ + 1,
                        !.biases_local = @ + 1],
             0, packs_in_group)
      Kk(st, k) ==
        Loop(NGroup,
             [st EXCEPT !.result_local = st.result,
                        !.xi = At(x, st.x),
                        !.x = @ + 1],
             0, Trips(N, group_size))
      Mm(st, m) ==
        LET s1 == Loop(Kk,
                       [st EXCEPT !.w_local = 4 * w0,
                                  !.scales_local = s0,
                                  !.biases_local = b0,
                                  !.res = LET Zero(r, n) ==
                                                 SetAt(r, st.result + n, 0)
                                           IN Loop(Zero, st.res, 0, N)],
                       0, K)
        IN [s1 EXCEPT !.result = @ + N]
  IN Loop(Mm,
          [res |-> result, result |-> r0, x |-> x0, w_local |-> 4 * w0,
           scales_local |-> s0, biases_local |-> b0, result_local |-> r0,
           xi |-> 0, scale |-> 0, bias |-> 0, wi |-> 0, wl |-> << >>],
          0, M).res

\* _qmm_t<T, bits, group_size>: result = x @ W^T, W stored N x K.  The final
\* loop state: next to the result buffer res it keeps, for every output
\* element in the order they are stored, the sequence of
\* <<activation index, decoded code>> pairs that were multiplied (decoded).
_qmm_t_run(result, r0, x, x0, w, w0, scales, s0, biases, b0, bits, group_size, M, N, K) ==
  LET bitmask == Pow2(bits) - 1
      pack_factor == get_pack_factor(bits, 8)
      bytes_per_pack == get_bytes_per_pack(bits, 8)
      packs_in_group == group_size \div pack_factor
      PExtract(st, p) ==
        [st EXCEPT !.sum = @ + At(x, st.x_local + p)
                               * dequant(st.scale, st.wl[p + 1], st.bias),
                   !.trace = Append(@, <<st.x_local + p, st.wl[p + 1]>>)]
      PByte(st, p) ==
        [st EXCEPT !.sum = @ + At(x, st.x_local)
                               * dequant(st.scale, BitAnd(st.wi, bitmask),
                                         st.bias),
                   !.trace = Append(@, <<st.x_local, BitAnd(st.wi, bitmask)>>),
                   !.x_local = @ + 1,
                   !.wi = IF bits # 8 THEN Shr(@, bits) ELSE @]
      Kw(st, kw) ==
        IF bits = 3 \/ bits = 5 \/ bits = 6
        THEN LET s1 == Loop(PExtract,
                            [st EXCEPT !.wl = extract_bits(bits, w, st.w_local)],
                            0, pack_factor)
             IN [s1 EXCEPT !.w_local = @ + bytes_per_pack,
                           !.x_local = @ + pack_factor]
        ELSE Loop(PByte,
                  [st EXCEPT !.wi = At(w, st.w_local), !.w_local = @ + 1],
                  0, pack_factor)
      KGroup(st, k) ==
        Loop(Kw,
             [st EXCEPT !.scale = At(scales, st.scales_local),
                        !.bias = At(biases, st.biases_local),
                        !.scales_local = @ + 1,
                        !.biases_local = @ + 1],
             0, packs_in_group)
      \* *result = sum; result++
      Emit(s) == [s EXCEPT !.res = SetAt(s.res, s.result, s.sum),
                           !.result = @ + 1,
                           !.decoded = Append(@, s.trace)]
      Nn(st, n) ==
        Emit(Loop(KGroup,
                  [st EXCEPT !.x_local = st.x, !.sum = 0, !.trace = << >>],
                  0, Trips(K, group_size)))
      Mm(st, m) ==
        LET s1 == Loop(Nn,
                       [st EXCEPT !.w_local = 4 * w0,
                                  !.scales_local = s0,
                                  !.biases_local = b0],
                       0, N)
        IN [s1 EXCEPT !.x = @ + K]
  IN Loop(Mm,
          [res |-> result, result |-> r0, x |-> x0, w_local |-> 4 * w0,
           scales_local |-> s0, biases_local |-> b0, x_local |-> x0,
           sum |-> 0, scale |-> 0, bias |-> 0, wi |-> 0, wl |-> << >>,
           trace |-> << >>, decoded |-> << >>],
          0, M)

\* the result buffer _qmm_t leaves
_qmm_t(result, r0, x, x0, w, w0, scales, s0, biases, b0, bits, group_size, M, N, K) ==
  _qmm_t_run(result, r0, x, x0, w, w0, scales, s0, biases, b0, bits, group_size, M, N, K).res

\* the uint32_t at word offset i of a byte buffer, as a set of bit positions
WordAt(w, i) ==
  U64Or(U64Or(U64Of(At(w, 4 * i)), U64Shl(U64Of(At(w, 4 * i + 1)), 8)),
        U64Or(U64Shl(U64Of(At(w, 4 * i + 2)), 16),
              U64Shl(U64Of(At(w, 4 * i + 3)), 24)))

\* one lane of (wi >> shift) & bitmask
Lane(word, shift, bits) == SumPow(U64And(U64Shr(word, shift), Mask(0, bits - 1)))

\* the 8-bit lanes all taken from the first word
extract_bits_simd_one_word(bits, S, w, i) ==
  IF bits = 4 /\ S = 8 THEN
    [ err |-> "none",
      wi |-> LET shifts_ == << 0, 4, 8, 12, 16, 20, 24, 28 >>
             IN [l \in 1..8 |-> Lane(WordAt(w, i), shifts_[l], bits)] ]
  ELSE IF bits = 8 /\ S = 8 THEN
    [ err |-> "none",
      wi |-> LET shifts_ == << 0, 8, 16, 24, 0, 8, 16, 24 >>
             IN [l \in 1..8 |-> Lane(WordAt(w, i), shifts_[l], bits)] ]
  ELSE [ err |-> "runtime_error", wi |-> << >> ]

\* extract_bits_simd<bits, S>: the S lanes, or the runtime_error
extract_bits_simd(bits, S, w, i) ==
  IF bits = 4 /\ S = 8 THEN
    [ err |-> "none",
      wi |-> LET shifts_ == << 0, 4, 8, 12, 16, 20, 24, 28 >>
             IN [l \in 1..8 |-> Lane(WordAt(w, i), shifts_[l], bits)] ]
  ELSE IF bits = 8 /\ S = 8 THEN
    [ err |-> "none",
      wi |-> LET shifts_ == << 0, 8, 16, 24, 0, 8, 16, 24 >>
             IN [l \in 1..8 |->
                   Lane(WordAt(w, IF l <= 4 THEN i ELSE i + 1),
                        shifts_[l], bits)] ]
  ELSE [ err |-> "runtime_error", wi |-> << >> ]

\* _qmm_t_simd<T, bits, group_size> with S = simd::max_size<T>.  The final
\* loop state: the result buffer res, the error err that ended the kernel,
\* if any, and for every output element in the order they are stored the
\* sequence of its SIMD steps (steps): the group g of the step, the
\* activation and word cursors x and w it started from, and its S lanes.
_qmm_t_simd_run(result, r0, x, x0, w, w0, scales, s0, biases, b0, bits, group_size, S, M, N, K) ==
  LET pack_factor == 32 \div bits
      packs_in_group == group_size \div pack_factor
      packs_per_simd == S \div pack_factor
      \* trips of the loop over kw; a step of 0 is a width S < pack_factor,
      \* for which the first extract_bits_simd throws
      kw_trips == IF packs_per_simd = 0 THEN 1
                  ELSE Trips(packs_in_group, packs_per_simd)
      \* the multiply-accumulate of one SIMD chunk, or the error of the decode
      Chunk(st, e) ==
        IF e.err # "none" THEN [st EXCEPT !.err = e.err]
        ELSE [st EXCEPT
                !.chunks = Append(@, [g |-> st.g, x |-> st.x_local,
                                      w |-> st.w_local, codes |-> e.wi]),
                !.w_local = @ + packs_per_simd,
                !.acc = [l \in 1..S |->
                           st.acc[l]
                           + At(x, st.x_local + (l - 1))
                             * (e.wi[l] * st.scale + st.bias)],
                !.x_local = @ + S]
      Kw(st, kw) ==
        IF st.err # "none" THEN st
        ELSE Chunk(st, extract_bits_simd(bits, S, w, st.w_local))
      KGroup(st, k) ==
        IF st.err # "none" THEN st
        ELSE Loop(Kw,
                  [st EXCEPT !.g = k,
                             !.scale = At(scales, st.scales_local),
                             !.bias = At(biases, st.biases_local),
                             !.scales_local = @ + 1,
                             !.biases_local = @ + 1],
                  0, kw_trips)
      \* *result = T(simd::sum(acc)); result++
      Emit(s) ==
        LET AddLane(a, l) == a + s.acc[l + 1]
        IN IF s.err # "none" THEN s
           ELSE [s EXCEPT !.res = SetAt(s.res, s.result,
                                        Loop(AddLane, 0, 0, S)),
                          !.result = @ + 1,
                          !.steps = Append(@, s.chunks)]
      Nn(st, n) ==
        IF st.err # "none" THEN st
        ELSE Emit(Loop(KGroup,
                       [st EXCEPT !.acc = [l \in 1..S |-> 0],
                                  !.x_local = st.x,
                                  !.chunks = << >>],
                       0, Trips(K, group_size)))
      Mm(st, m) ==
        IF st.err # "none" THEN st
        ELSE LET s1 == Loop(Nn,
                            [st EXCEPT !.w_local = w0,
                                       !.scales_local = s0,
                                       !.biases_local = b0],
                            0, N)
             IN [s1 EXCEPT !.x = @ + K]
  IN Loop(Mm,
          [res |-> result, result |-> r0, x |-> x0, w_local |-> w0,
           scales_local |-> s0, biases_local |-> b0, x_local |-> x0,
           acc |-> << >>, scale |-> 0, bias |-> 0, err |-> "none",
           g |-> 0, chunks |-> << >>, steps |-> << >>],
          0, M)

\* what _qmm_t_simd leaves: the result buffer and the error, if any
simd_outcome(fin) == [res |-> fin.res, err |-> fin.err]

_qmm_t_simd(result, r0, x, x0, w, w0, scales, s0, biases, b0, bits, group_size, S, M, N, K) ==
  simd_outcome(_qmm_t_simd_run(result, r0, x, x0, w, w0, scales, s0, biases, b0, bits, group_size, S, M, N, K))

(***************************************************************************)
(* Arrays and the dispatch chain.  An array is a record of its shape, its  *)
(* strides (in elements), its dtype and its data buffer; a uint32 array    *)
(* holds its buffer as bytes, four per element.                            *)
(***************************************************************************)
RECURSIVE Prod(_, _)
Prod(shape, i) == IF i > Len(shape) THEN 1 ELSE shape[i] * Prod(shape, i + 1)

\* array::size(), array::ndim() and array::shape(-d)
Size(arr) == Prod(arr.shape, 1)

Ndim(arr) == Len(arr.shape)

ShapeEnd(arr, d) == arr.shape[Len(arr.shape) + 1 - d]

RowMajor(shape) == [i \in 1..Len(shape) |-> Prod(shape, i + 1)]

\* buffer cells per element
Width(arr) == IF arr.dtype = "uint32" THEN 4 ELSE 1

\* the buffer offset of the elem-th element in row-major order
RECURSIVE elem_to_loc_dim(_, _, _, _)
elem_to_loc_dim(elem, shape, strides, i) ==
  IF i = 0 THEN 0
  ELSE (elem % shape[i]) * strides[i]
       + elem_to_loc_dim(elem \div shape[i], shape, strides, i - 1)

elem_to_loc(elem, shape, strides) ==
  elem_to_loc_dim(elem, shape, strides, Len(shape))

\* array::flags().row_contiguous
row_contiguous(arr) ==
  \A i \in 1..Ndim(arr) :
    arr.shape[i] = 1 \/ arr.strides[i] = RowMajor(arr.shape)[i]

\* copy_cpu(arr, temp, CopyType::General): a row-major copy of arr's elements
copy_general(arr) ==
  [ shape |-> arr.shape, strides |-> RowMajor(arr.shape), dtype |-> arr.dtype,
    data |-> [j \in 1..(Size(arr) * Width(arr)) |->
                At(arr.data,
                   elem_to_loc((j - 1) \div Width(arr), arr.shape, arr.strides)
                     * Width(arr) + ((j - 1) % Width(arr)))] ]

ensure_row_contiguous(arr) ==
  IF row_contiguous(arr) THEN arr ELSE copy_general(arr)

ensure_row_contiguous_last_dims(arr) ==
  LET stride_0 == arr.strides[Ndim(arr) - 1]
      stride_1 == arr.strides[Ndim(arr)]
  IN IF stride_0 = ShapeEnd(arr, 1) /\ stride_1 = 1
     THEN arr
     ELSE copy_general(arr)

\* The state a task threads through its calls: the output buffer, the
\* exception in flight with its what(), and the kernel specializations
\* called so far.
Thrown(st, e, what) == [st EXCEPT !.err = e, !.what = what]

\* the messages of the exceptions
BitsMessage == "Quantization bits must be 2, 3, 4, 6 or 8."

GroupSizeMessage == "Quantization group size must be 32, 64 or 128."

DtypeMessage == "[quantized_matmul] only floating types are supported"

SimdMessage == "Unsupported combination for simd qmm."

Called(st, res, kernel, bits, group_size, p) ==
  [st EXCEPT !.res = res,
             !.calls = Append(@, [kernel |-> kernel, bits |-> bits,
                                  group_size |-> group_size, at |-> p])]

\* st after a call of _qmm_t_simd that ended as r: by its throw or its return
CalledSimd(st, r, bits, group_size, p) ==
  IF r.err # "none"
  THEN Thrown(st, r.err, SimdMessage)
  ELSE Called(st, r.res, "_qmm_t_simd", bits, group_size, p)

\* the test on the bit width alone
simd_by_bits(bits, S) == 32 % bits = 0

\* the compile-time test that selects _qmm_t_simd
simd_selected(bits, S) == 32 % bits = 0 /\ S % (32 \div bits) = 0

\* _qmm_dispatch_transpose<T, bits, group_size>; S is simd::max_size<T>, mem
\* the buffers and p the offsets the pointer arguments hold
_qmm_dispatch_transpose(st, S, bits, group_size, mem, p, M, N, K, transposed_w) ==
  IF transposed_w
  THEN IF simd_selected(bits, S)
       THEN CalledSimd(st,
                       _qmm_t_simd(st.res, p.result, mem.x, p.x, mem.w, p.w,
                                   mem.scales, p.scales, mem.biases, p.biases,
                                   bits, group_size, S, M, N, K),
                       bits, group_size, p)
       ELSE Called(st,
                   _qmm_t(st.res, p.result, mem.x, p.x, mem.w, p.w,
                          mem.scales, p.scales, mem.biases, p.biases,
                          bits, group_size, M, N, K),
                   "_qmm_t", bits, group_size, p)
  ELSE Called(st,
              _qmm(st.res, p.result, mem.x, p.x, mem.w, p.w,
                   mem.scales, p.scales, mem.biases, p.biases,
                   bits, group_size, M, N, K),
              "_qmm", bits, group_size, p)

\* _qmm_dispatch_group<T, bits>: the switch instantiates group_size for the
\* cases 32, 64 and 128 and throws in the default case
_qmm_dispatch_group(st, S, bits, mem, p, M, N, K, group_size, transposed_w) ==
  IF group_size \in {32, 64, 128}
  THEN _qmm_dispatch_transpose(st, S, bits, group_size, mem, p, M, N, K,
                               transposed_w)
  ELSE Thrown(st, "invalid_argument", GroupSizeMessage)

\* the pointer-level dispatcher taking its two integers in the order of the
\* array-level drivers' parameter names
_qmm_dispatch_typed_ptr_renamed(st, S, mem, p, M, N, K, group_size, bits, transposed_w) ==
  IF group_size \in {2, 3, 4, 5, 6, 8}
  THEN _qmm_dispatch_group(st, S, group_size, mem, p, M, N, K, bits,
                           transposed_w)
  ELSE Thrown(st, "invalid_argument", BitsMessage)

\* _qmm_dispatch_typed<T>, the overload on pointers: the switch instantiates
\* bits for the cases 2, 3, 4, 5, 6 and 8 and throws in the default case
_qmm_dispatch_typed_ptr(st, S, mem, p, M, N, K, group_size, bits, transposed_w) ==
  IF bits \in {2, 3, 4, 5, 6, 8}
  THEN _qmm_dispatch_group(st, S, bits, mem, p, M, N, K, group_size,
                           transposed_w)
  ELSE Thrown(st, "invalid_argument", BitsMessage)

Buffers(x, w, scales, biases) ==
  [x |-> x.data, w |-> w.data, scales |-> scales.data, biases |-> biases.data]

\* _qmm_dispatch_typed<T>, the overload on arrays: the dense batch loop
_qmm_dispatch_typed(st, S, out, x, w, scales, biases, bits, group_size, transposed_w) ==
  LET K == ShapeEnd(x, 1)
      M == IF Ndim(x) > 1 THEN ShapeEnd(x, 2) ELSE 1
      N == out.shape[Len(out.shape)]
      w_els == IF Ndim(w) > 2 THEN ShapeEnd(w, 1) * ShapeEnd(w, 2) ELSE 0
      g_els == IF Ndim(w) > 2
               THEN ShapeEnd(scales, 1) * ShapeEnd(scales, 2) ELSE 0
      batch_size == Size(x) \div (K * M)
      Batch(s, i) ==
        IF s.err # "none" THEN s
        ELSE _qmm_dispatch_typed_ptr(
               s, S, Buffers(x, w, scales, biases),
               [ result |-> i * M * N,
                 x |-> elem_to_loc(i * M * K, x.shape, x.strides),
                 w |-> elem_to_loc(i * w_els, w.shape, w.strides),
                 scales |-> elem_to_loc(i * g_els, scales.shape, scales.strides),
                 biases |-> elem_to_loc(i * g_els, biases.shape, biases.strides) ],
               M, N, K, bits, group_size, transposed_w)
      \* the state after the first i iterations of the loop
      after[i \in 0..batch_size] ==
        IF i = 0 THEN st ELSE Batch(after[i - 1], i - 1)
  IN after[batch_size]

FloatDtype(dtype) == dtype \in {"float32", "float16", "bfloat16"}

\* the dense dispatch with the scales and biases arrays exchanged
_qmm_dispatch_exchanged(st, S, out, x, w, scales, biases, bits, group_size, transposed_w) ==
  IF FloatDtype(x.dtype)
  THEN _qmm_dispatch_typed(st, S, out, x, w, biases, scales, bits, group_size,
                           transposed_w)
  ELSE Thrown(st, "invalid_argument", DtypeMessage)

\* _qmm_dispatch: the switch on x.dtype()
_qmm_dispatch(st, S, out, x, w, scales, biases, bits, group_size, transposed_w) ==
  IF FloatDtype(x.dtype)
  THEN _qmm_dispatch_typed(st, S, out, x, w, scales, biases, bits, group_size,
                           transposed_w)
  ELSE Thrown(st, "invalid_argument", DtypeMessage)

\* _bs_qmm_dispatch_typed<T>: the gathered loop over the index arrays
_bs_qmm_dispatch_typed(st, S, out, x, w, scales, biases, lhs_indices, rhs_indices, bits, group_size, transposed_w) ==
  LET K == ShapeEnd(x, 1)
      M == ShapeEnd(x, 2)
      N == out.shape[Len(out.shape)]
      w_els == ShapeEnd(w, 1) * ShapeEnd(w, 2)
      g_els == ShapeEnd(scales, 1) * ShapeEnd(scales, 2)
      Batch(s, i) ==
        IF s.err # "none" THEN s
        ELSE LET x_idx == At(lhs_indices.data,
                             elem_to_loc(i, lhs_indices.shape,
                                         lhs_indices.strides))
                 w_idx == At(rhs_indices.data,
                             elem_to_loc(i, rhs_indices.shape,
                                         rhs_indices.strides))
             IN _qmm_dispatch_typed_ptr(
                  s, S, Buffers(x, w, scales, biases),
                  [ result |-> i * M * N,
                    x |-> elem_to_loc(x_idx * M * K, x.shape, x.strides),
                    w |-> elem_to_loc(w_idx * w_els, w.shape, w.strides),
                    scales |-> elem_to_loc(w_idx * g_els, scales.shape,
                                           scales.strides),
                    biases |-> elem_to_loc(w_idx * g_els, biases.shape,
                                           biases.strides) ],
                  M, N, K, bits, group_size, transposed_w)
      \* the state after the first i iterations of the loop
      after[i \in 0..Size(lhs_indices)] ==
        IF i = 0 THEN st ELSE Batch(after[i - 1], i - 1)
  IN after[Size(lhs_indices)]

\* the gathered dispatch with the two index arrays exchanged
_bs_qmm_dispatch_exchanged(st, S, out, x, w, scales, biases, lhs_indices, rhs_indices, bits, group_size, transposed_w) ==
  IF FloatDtype(x.dtype)
  THEN _bs_qmm_dispatch_typed(st, S, out, x, w, scales, biases, rhs_indices,
                              lhs_indices, bits, group_size, transposed_w)
  ELSE Thrown(st, "invalid_argument", DtypeMessage)

\* _bs_qmm_dispatch: the switch on x.dtype()
_bs_qmm_dispatch(st, S, out, x, w, scales, biases, lhs_indices, rhs_indices, bits, group_size, transposed_w) ==
  IF FloatDtype(x.dtype)
  THEN _bs_qmm_dispatch_typed(st, S, out, x, w, scales, biases, lhs_indices,
                              rhs_indices, bits, group_size, transposed_w)
  ELSE Thrown(st, "invalid_argument", DtypeMessage)


(***************************************************************************)
(* The command encoder: the arrays an eval_cpu registers with it before it *)
(* dispatches its task, by the names they have in the task.                *)
(***************************************************************************)
NoArrays == [inputs |-> {}, outputs |-> {}]

set_input_array(enc, a) == [enc EXCEPT !.inputs = @ \cup {a}]

set_output_array(enc, a) == [enc EXCEPT !.outputs = @ \cup {a}]

\* the registrations of QuantizedMatmul::eval_cpu, in the order of the code
QuantizedMatmulArrays ==
  set_output_array(
    set_input_array(
      set_input_array(
        set_input_array(set_input_array(NoArrays, "x"), "w"), "scales"),
      "biases"),
    "out")

\* the registrations of GatherQMM::eval_cpu
GatherQMMArrays ==
  set_output_array(
    set_input_array(
      set_input_array(
        set_input_array(
          set_input_array(
            set_input_array(set_input_array(NoArrays, "x"), "w"), "scales"),
          "biases"),
        "lhs_indices"),
      "rhs_indices"),
    "out")

\* the registrations of fast::AffineQuantize::eval_cpu
AffineQuantizeArrays ==
  set_output_array(
    set_input_array(
      set_input_array(set_input_array(NoArrays, "w"), "scales"), "biases"),
    "out")
(***************************************************************************)
(* Initial values of the components that take no part in a specification.  *)
(***************************************************************************)
CodecOff ==
  /\ c_pc = "off"
  /\ c_bits = 0
  /\ c_codes = << >>
  /\ c_packed = << >>
  /\ c_decoded = << >>

QuantOff ==
  /\ q_pc = "off"
  /\ q_dtype = "none"
  /\ q_bits = 0
  /\ q_group_size = 0
  /\ q_w = << >>
  /\ q_out = << >>
  /\ q_scales = << >>
  /\ q_biases = << >>
  /\ q_error = "none"
  /\ q_encoder = NoArrays


KernOff ==
  /\ k_pc = "off"
  /\ k_in = << >>
  /\ k_res = << >>
  /\ k_decoded = << >>
  /\ k_simd = << >>

MatmulOff ==
  /\ m_pc = "off"
  /\ m_in = << >>
  /\ m_task = << >>
  /\ m_out = << >>
  /\ m_error = "none"
  /\ m_what = ""
  /\ m_calls = << >>
  /\ m_encoder = NoArrays
(***************************************************************************)
(* Quantizer specification: one fast::AffineQuantize::eval_cpu task.       *)
(***************************************************************************)
\* number of whole groups in the input
MaxGroups == 2

\* lengths of a trailing partial group
TailLens == {0, 8}

\* sample values, in units of eps/2: below eps/2, around eps, far above it
WVals == {-600, -400, -8, -7, -1, 0, 1, 7, 8, 400, 600}

RECURSIVE SortedSeq(_)
SortedSeq(S) ==
  IF S = {} THEN << >>
  ELSE LET m == CHOOSE x \in S : \A y \in S : x <= y
       IN << m >> \o SortedSeq(S \ {m})

\* a weight buffer of n whole groups and a tail: every group holds all the
\* sample values between lo and hi, negated in odd groups
WeightBuf(lo, hi, group_size, n, tail) ==
  LET fill == SortedSeq({v \in WVals : lo <= v /\ v <= hi})
  IN [i \in 1..(n * group_size + tail) |->
        LET a == i - 1
            g == a \div group_size
            v == fill[(((a % group_size) + 3 + g) % Len(fill)) + 1]
        IN IF g % 2 = 0 THEN v ELSE -v]

\* The element type and the group size do not change the arithmetic, so the
\* types other than float32 and the group size 64 are run on one value range.
QuantInit ==
  /\ q_pc = "start"
  /\ \E lo \in WVals, hi \in WVals, dtype \in FloatTypes \cup {"int32"},
        group_size \in {32, 64}, n \in 1..MaxGroups, tail \in TailLens :
       /\ lo <= hi
       /\ (dtype # "float32" \/ group_size # 32) => (lo = -7 /\ hi = 8)
       /\ group_size # 32 => (n = 1)
       /\ q_dtype = dtype
       /\ q_group_size = group_size
       /\ q_w = WeightBuf(lo, hi, group_size, n, tail)
  /\ q_bits \in BitWidths
  /\ q_out = << >>
  /\ q_scales = << >>
  /\ q_biases = << >>
  /\ q_error = "none"
  /\ q_encoder = NoArrays

\* fast::AffineQuantize::eval_cpu: the registrations with the command
\* encoder and the task it dispatches
AffineQuantizeEval ==
  /\ q_pc = "start"
  /\ q_pc' = "done"
  /\ q_encoder' = AffineQuantizeArrays
  /\ IF q_dtype \in FloatTypes
     THEN LET r == dispatch_quantize(q_w, OutType(q_bits), q_bits, q_group_size)
          IN /\ q_out' = r.out
             /\ q_scales' = r.scales
             /\ q_biases' = r.biases
             /\ q_error' = "none"
     ELSE /\ q_error' = "runtime_error"
          /\ UNCHANGED <<q_out, q_scales, q_biases>>
  /\ UNCHANGED <<q_dtype, q_bits, q_group_size, q_w, codecVars, kernVars, matmulVars>>

QuantNext == AffineQuantizeEval

\* the initial states: the other components are idle
InitQuant == QuantInit /\ CodecOff /\ KernOff /\ MatmulOff

SpecQuant == InitQuant /\ [][QuantNext]_vars

(***************************************************************************)
(* Kernel specification: one call of _qmm or _qmm_t on a packed weight,    *)
(* and after _qmm_t a call of _qmm_t_simd on the same arguments where the  *)
(* dispatcher would select it.                                             *)
(***************************************************************************)
\* rows of the activation matrix
MaxM == 2

\* the dimension of the weight that is not grouped (K of _qmm, N of _qmm_t)
MaxRows == 2

\* the grouped dimension of the weight, in groups (N of _qmm, K of _qmm_t)
MaxDimGroups == 2

\* input data: codes, activations, scales and biases that differ between
\* neighbouring positions, rows and groups
CodePattern(bits, seed, e) == (e * 5 + (e \div 3) + seed) % Pow2(bits)

XPattern(seed, i) == ((i * 3 + seed) % 5) - 2

ScalePattern(g) == (g % 3) + 1

BiasPattern(g) == ((g * 2) % 5) - 2

\* the packed weight the quantizer's encoder writes for a sequence of codes
PackCodes(bits, codes) ==
  LET el_per_int == get_pack_factor(bits, 32)
      PackJ(out, j) ==
        pack_store(out, OutType(bits), 0, j, bits,
                   SubSeq(codes, j * el_per_int + 1, (j + 1) * el_per_int))
  IN Loop(PackJ, << >>, 0, Len(codes) \div el_per_int)

\* the arguments of a kernel call on an M x K activation and a weight of
\* N * K codes
KernelArgs(kernel, bits, group_size, M, N, K, seed) ==
  LET codes == [i \in 1..(N * K) |-> CodePattern(bits, seed, i - 1)]
  IN [ kernel |-> kernel, bits |-> bits, group_size |-> group_size,
       M |-> M, N |-> N, K |-> K,
       x |-> [i \in 1..(M * K) |-> XPattern(seed, i - 1)],
       codes |-> codes,
       w |-> PackCodes(bits, codes),
       scales |-> [i \in 1..((N * K) \div group_size) |-> ScalePattern(i - 1)],
       biases |-> [i \in 1..((N * K) \div group_size) |-> BiasPattern(i - 1)] ]

KernInit ==
  /\ k_pc = "start"
  /\ \E kernel \in {"qmm", "qmm_t"}, bits \in BitWidths,
        group_size \in GroupSizes, M \in 1..MaxM, rows \in 1..MaxRows,
        groups \in 1..MaxDimGroups, seed \in {0, 1} :
       k_in = IF kernel = "qmm"
              THEN KernelArgs(kernel, bits, group_size, M,
                              groups * group_size, rows, seed)
              ELSE KernelArgs(kernel, bits, group_size, M,
                              rows, groups * group_size, seed)
  /\ k_res = Blank(k_in.M * k_in.N)
  /\ k_decoded = << >>
  /\ k_simd = << >>

CallQmm ==
  /\ k_pc = "start"
  /\ k_in.kernel = "qmm"
  /\ k_res' = _qmm(k_res, 0, k_in.x, 0, k_in.w, 0, k_in.scales, 0,
                   k_in.biases, 0, k_in.bits, k_in.group_size,
                   k_in.M, k_in.N, k_in.K)
  /\ k_pc' = "done"
  /\ UNCHANGED <<k_in, k_decoded, k_simd, codecVars, quantVars, matmulVars>>

\* the result buffer and the decoded codes the run fin of _qmm_t leaves
QmmTEnds(fin) ==
  /\ k_res' = fin.res
  /\ k_decoded' = fin.decoded

CallQmmT ==
  /\ k_pc = "start"
  /\ k_in.kernel = "qmm_t"
  /\ QmmTEnds(_qmm_t_run(k_res, 0, k_in.x, 0, k_in.w, 0, k_in.scales, 0,
                         k_in.biases, 0, k_in.bits, k_in.group_size,
                         k_in.M, k_in.N, k_in.K))
  /\ k_pc' = "done"
  /\ UNCHANGED <<k_in, k_simd, codecVars, quantVars, matmulVars>>

\* simd::max_size<T> of the build the SIMD kernel is called in
KernelSimdWidth == 8

\* _qmm_t_simd on the arguments _qmm_t was called with and a fresh result
\* buffer, for the bit widths _qmm_dispatch_transpose selects it for
CallQmmTSimd ==
  /\ k_pc = "done"
  /\ k_in.kernel = "qmm_t"
  /\ simd_selected(k_in.bits, KernelSimdWidth)
  /\ k_simd' = _qmm_t_simd_run(Blank(k_in.M * k_in.N), 0, k_in.x, 0,
                                k_in.w, 0, k_in.scales, 0, k_in.biases, 0,
                                k_in.bits, k_in.group_size, KernelSimdWidth,
                                k_in.M, k_in.N, k_in.K)
  /\ k_pc' = "compared"
  /\ UNCHANGED <<k_in, k_res, k_decoded, codecVars, quantVars, matmulVars>>

KernNext == CallQmm \/ CallQmmT \/ CallQmmTSimd

\* the initial states: the other components are idle
InitKernel == KernInit /\ CodecOff /\ QuantOff /\ MatmulOff

SpecKernel == InitKernel /\ [][KernNext]_vars

(***************************************************************************)
(* Matmul specification: QuantizedMatmul::eval_cpu and GatherQMM::eval_cpu *)
(* with the task each of them dispatches.                                  *)
(***************************************************************************)
\* activation batches of the dense matmul (0 is an empty batch)
MaxBatch == 2

\* positions of the index arrays of the gathered matmul
MaxIndices == 3

\* simd::max_size<T> of the builds: 1 without SIMD support, 8 with it
SimdWidths == {1, 8}

\* field values of the primitives, 7 and 100 being unsupported ones
BitsValues == BitWidths \cup {7}

GroupSizeValues == GroupSizes \cup {100}

Dtypes == {"float32", "float16", "bfloat16", "int32"}

\* the widths the buffers of an input are laid out for
LayoutBits(bits_) == IF bits_ \in BitWidths THEN bits_ ELSE 4

LayoutGroup(group_size_) ==
  IF group_size_ \in GroupSizes THEN group_size_ ELSE 32

\* the codes of weight batch b, R rows of C codes
BatchCodes(bits, seed, b, R, C) ==
  [e \in 1..(R * C) |-> CodePattern(bits, seed + 7 * b, e - 1)]

\* A weight of nb stored batches of R x C codes with its scales and biases,
\* seen through the batch shape and batch stride factor given (bshape is
\* << >> for a weight without batch dimension, bstride 0 for a broadcast).
Weight(bits, group_size, seed, nb, bshape, bstride, R, C) ==
  LET Cw == (C * bits) \div 32
      G == C \div group_size
      WPart(b) == PackCodes(bits, BatchCodes(bits, seed, b, R, C))
      SPart(b) == [i \in 1..(R * G) |-> ScalePattern(i - 1 + b)]
      BPart(b) == [i \in 1..(R * G) |-> BiasPattern(i - 1 + 2 * b)]
      BStr(n) == IF bshape = << >> THEN << >> ELSE << bstride * n >>
      \* the concatenation of Part(0), ..., Part(n - 1)
      Concat(Part(_), n) ==
        LET Step(acc, b) == acc \o Part(b)
        IN Loop(Step, << >>, 0, n)
  IN [ w |-> [shape |-> bshape \o << R, Cw >>,
              strides |-> BStr(R * Cw) \o << Cw, 1 >>,
              dtype |-> "uint32", data |-> Concat(WPart, nb)],
       scales |-> [shape |-> bshape \o << R, G >>,
                   strides |-> BStr(R * G) \o << G, 1 >>,
                   dtype |-> "float32", data |-> Concat(SPart, nb)],
       biases |-> [shape |-> bshape \o << R, G >>,
                   strides |-> BStr(R * G) \o << G, 1 >>,
                   dtype |-> "float32", data |-> Concat(BPart, nb)],
       \* the codes of stored batch b
       codes |-> [b \in 0..(nb - 1) |-> BatchCodes(bits, seed, b, R, C)] ]

\* An activation of nb stored batches of M x K values
Activation(dtype, seed, nb, bshape, bstride, mshape, K) ==
  LET M == IF mshape = << >> THEN 1 ELSE mshape[1]
      BStr == IF bshape = << >> THEN << >> ELSE << bstride * M * K >>
      MStr == IF mshape = << >> THEN << >> ELSE << K >>
  IN [ shape |-> bshape \o mshape \o << K >>,
       strides |-> BStr \o MStr \o << 1 >>,
       dtype |-> dtype,
       data |-> [i \in 1..(nb * M * K) |-> XPattern(seed, i - 1)] ]

IndexArray(idx, stride) ==
  [ shape |-> << Len(idx) >>, strides |-> << stride >>, dtype |-> "uint32",
    data |-> IF stride = 0 THEN SubSeq(idx, 1, 1) ELSE idx ]

\* the index sequences of the gathered matmul, over 2 batches
IndexSeqs ==
  UNION {[1..n -> {0, 1}] : n \in 0..MaxIndices}

\* the inputs of a primitive and its fields
Inputs(op, bits_, group_size_, transpose_, S, x, wt, N, K, lhs, rhs) ==
  [ op |-> op, bits_ |-> bits_, group_size_ |-> group_size_,
    transpose_ |-> transpose_, S |-> S,
    x |-> x, w |-> wt.w, scales |-> wt.scales, biases |-> wt.biases,
    codes |-> wt.codes, N |-> N, K |-> K,
    lhs_indices |-> lhs, rhs_indices |-> rhs,
    out |-> [shape |-> IF op = "GatherQMM"
                       THEN lhs.shape \o << ShapeEnd(x, 2), N >>
                       ELSE SubSeq(x.shape, 1, Len(x.shape) - 1) \o << N >>] ]

NoIndices == IndexArray(<< >>, 1)

DenseInputs(bits_, group_size_, transpose_, dtype, S, seed, B, xmode, wmode, M, rows, groups) ==
  LET bits == LayoutBits(bits_)
      group_size == LayoutGroup(group_size_)
      N == IF transpose_ THEN rows ELSE groups * group_size
      K == IF transpose_ THEN groups * group_size ELSE rows
      R == IF transpose_ THEN N ELSE K
      C == IF transpose_ THEN K ELSE N
      x == CASE xmode = "1d" -> Activation(dtype, seed, 1, << >>, 1, << >>, K)
             [] xmode = "2d" -> Activation(dtype, seed, 1, << >>, 1, << M >>, K)
             [] xmode = "3d" -> Activation(dtype, seed, B, << B >>, 1, << M >>, K)
             [] xmode = "bcast" ->
                  Activation(dtype, seed, 1, << B >>, 0, << M >>, K)
      wt == CASE wmode = "2d" ->
                   Weight(bits, group_size, seed, 1, << >>, 1, R, C)
              [] wmode = "one" ->
                   Weight(bits, group_size, seed, 1, << 1 >>, 1, R, C)
              [] wmode = "full" ->
                   Weight(bits, group_size, seed, B, << B >>, 1, R, C)
              [] wmode = "bcast" ->
                   Weight(bits, group_size, seed, 1, << B >>, 0, R, C)
  IN Inputs("QuantizedMatmul", bits_, group_size_, transpose_, S, x, wt, N, K,
            NoIndices, NoIndices)

GatherInputs(bits_, group_size_, transpose_, dtype, S, seed, xbcast, lhs, rstride, rhs, M, rows, groups) ==
  LET bits == LayoutBits(bits_)
      group_size == LayoutGroup(group_size_)
      N == IF transpose_ THEN rows ELSE groups * group_size
      K == IF transpose_ THEN groups * group_size ELSE rows
      R == IF transpose_ THEN N ELSE K
      C == IF transpose_ THEN K ELSE N
      x == IF xbcast
           THEN Activation(dtype, seed, 1, << 2 >>, 0, << M >>, K)
           ELSE Activation(dtype, seed, 2, << 2 >>, 1, << M >>, K)
      wt == Weight(bits, group_size, seed, 2, << 2 >>, 1, R, C)
  IN Inputs("GatherQMM", bits_, group_size_, transpose_, S, x, wt, N, K,
            IndexArray(lhs, 1), IndexArray(rhs, rstride))

\* the (M, rows, groups) sizes of the inputs
Sizes == {<<1, 1, 1>>, <<2, 2, 1>>, <<1, 2, 2>>}

Reverse(s) == [i \in 1..Len(s) |-> s[Len(s) + 1 - i]]

Flip(s) == [i \in 1..Len(s) |-> 1 - s[i]]

DenseInit ==
  \E bits_ \in BitsValues, group_size_ \in GroupSizeValues,
     transpose_ \in BOOLEAN, dtype \in Dtypes, S \in SimdWidths,
     B \in 0..MaxBatch, xmode \in {"1d", "2d", "3d", "bcast"},
     wmode \in {"2d", "one", "full", "bcast"}, sz \in Sizes :
    /\ xmode \in {"1d", "2d"} => B = 1 /\ wmode \in {"2d", "one"}
    /\ xmode = "1d" => sz[1] = 1
    /\ xmode = "bcast" => B >= 1 /\ wmode = "full"
    /\ wmode = "bcast" => B >= 1
    /\ (dtype # "float32" \/ group_size_ \in {64, 128} \/ S = 1) =>
         /\ sz = <<1, 1, 1>>
         /\ xmode = "3d" /\ wmode = "full" /\ B <= 1
    /\ dtype # "float32" => group_size_ = 32
    /\ dtype = "int32" => bits_ \in {4, 7}
    /\ (bits_ = 7 \/ group_size_ = 100) =>
         sz = <<1, 1, 1>> /\ xmode = "3d" /\ wmode = "full"
    /\ sz # <<1, 1, 1>> => bits_ \in {3, 4}
    /\ m_in = DenseInputs(bits_, group_size_, transpose_, dtype, S, 0, B,
                          xmode, wmode, sz[1], sz[2], sz[3])

GatherInit ==
  \E bits_ \in BitsValues, group_size_ \in GroupSizeValues,
     transpose_ \in BOOLEAN, dtype \in Dtypes, S \in SimdWidths,
     lhs \in IndexSeqs, rmode \in {"rev", "flip", "first"},
     xbcast \in BOOLEAN, sz \in Sizes :
    /\ sz[1] = 2 => Len(lhs) = MaxIndices
    /\ sz # <<1, 1, 1>> => bits_ \in {3, 4}
    /\ rmode = "first" => Len(lhs) >= 1 /\ ~xbcast
    /\ xbcast => rmode = "rev" /\ sz = <<1, 1, 1>>
    /\ (dtype # "float32" \/ group_size_ \in {64, 128} \/ S = 1) =>
         /\ sz = <<1, 1, 1>>
         /\ Len(lhs) <= 1 /\ rmode = "rev" /\ ~xbcast
    /\ dtype # "float32" => group_size_ = 32
    /\ dtype = "int32" => bits_ \in {4, 7}
    /\ (bits_ = 7 \/ group_size_ = 100) =>
         /\ sz = <<1, 1, 1>> /\ rmode = "rev" /\ ~xbcast
         /\ \A i \in 1..Len(lhs) : lhs[i] = 0
    /\ bits_ \notin {3, 4} => rmode = "rev" /\ ~xbcast
    /\ m_in = GatherInputs(bits_, group_size_, transpose_, dtype, S, 0,
                           xbcast, lhs,
                           IF rmode = "first" THEN 0 ELSE 1,
                           IF rmode = "flip" THEN Flip(lhs) ELSE Reverse(lhs),
                           sz[1], sz[2], sz[3])

MatmulInit ==
  /\ m_pc = "start"
  /\ DenseInit \/ GatherInit
  /\ m_task = << >>
  /\ m_out = << >>
  /\ m_error = "none"
  /\ m_what = ""
  /\ m_calls = << >>
  /\ m_encoder = NoArrays

NewTask == [res |-> m_out, err |-> "none", what |-> "", calls |-> << >>]

\* the task ends in state st: by the exception in flight or by returning
TaskEnds(st) ==
  /\ m_out' = st.res
  /\ m_error' = st.err
  /\ m_what' = st.what
  /\ m_calls' = st.calls
  /\ m_pc' = "done"
  /\ UNCHANGED <<m_in, m_task, m_encoder, codecVars, quantVars, kernVars>>

\* QuantizedMatmul::eval_cpu up to encoder.dispatch
QuantizedMatmulEval ==
  /\ m_pc = "start"
  /\ m_in.op = "QuantizedMatmul"
  /\ m_task' = [ out |-> m_in.out,
                 x |-> ensure_row_contiguous(m_in.x),
                 w |-> ensure_row_contiguous(m_in.w),
                 scales |-> ensure_row_contiguous(m_in.scales),
                 biases |-> ensure_row_contiguous(m_in.biases),
                 group_size_ |-> m_in.group_size_,
                 bits_ |-> m_in.bits_,
                 transpose_ |-> m_in.transpose_ ]
  /\ m_out' = Blank(Size(m_in.out))
  /\ m_encoder' = QuantizedMatmulArrays
  /\ m_pc' = "dispatched"
  /\ UNCHANGED <<m_in, m_error, m_what, m_calls, codecVars, quantVars, kernVars>>

\* the task QuantizedMatmul::eval_cpu dispatched
QuantizedMatmulTask ==
  /\ m_pc = "dispatched"
  /\ m_in.op = "QuantizedMatmul"
  /\ TaskEnds(_qmm_dispatch(NewTask, m_in.S, m_task.out, m_task.x, m_task.w,
                            m_task.scales, m_task.biases,
                            m_task.group_size_, m_task.bits_,
                            m_task.transpose_))

\* GatherQMM::eval_cpu up to encoder.dispatch
GatherQMMEval ==
  /\ m_pc = "start"
  /\ m_in.op = "GatherQMM"
  /\ m_task' = [ out |-> m_in.out,
                 x |-> ensure_row_contiguous_last_dims(m_in.x),
                 w |-> ensure_row_contiguous_last_dims(m_in.w),
                 scales |-> ensure_row_contiguous_last_dims(m_in.scales),
                 biases |-> ensure_row_contiguous_last_dims(m_in.biases),
                 lhs_indices |-> m_in.lhs_indices,
                 rhs_indices |-> m_in.rhs_indices,
                 group_size_ |-> m_in.group_size_,
                 bits_ |-> m_in.bits_,
                 transpose_ |-> m_in.transpose_ ]
  /\ m_out' = Blank(Size(m_in.out))
  /\ m_encoder' = GatherQMMArrays
  /\ m_pc' = "dispatched"
  /\ UNCHANGED <<m_in, m_error, m_what, m_calls, codecVars, quantVars, kernVars>>

\* the task GatherQMM::eval_cpu dispatched
GatherQMMTask ==
  /\ m_pc = "dispatched"
  /\ m_in.op = "GatherQMM"
  /\ TaskEnds(_bs_qmm_dispatch(NewTask, m_in.S, m_task.out, m_task.x,
                               m_task.w, m_task.scales, m_task.biases,
                               m_task.lhs_indices, m_task.rhs_indices,
                               m_task.group_size_, m_task.bits_,
                               m_task.transpose_))

MatmulNext ==
  \/ QuantizedMatmulEval
  \/ QuantizedMatmulTask
  \/ GatherQMMEval
  \/ GatherQMMTask

\* the initial states: the other components are idle
InitMatmul == MatmulInit /\ CodecOff /\ QuantOff /\ KernOff

SpecMatmul == InitMatmul /\ [][MatmulNext]_vars

(***************************************************************************)
(* Codec specification: encode one pack, then decode it.                   *)
(***************************************************************************)
CodeSamples(bits) ==
  {0, 1, Pow2(bits - 1), Pow2(bits) - 2, Pow2(bits) - 1}

CodecInit ==
  /\ c_pc = "start"
  /\ c_bits \in BitWidths
  /\ \E base \in {0, Pow2(c_bits) - 1},
        p1 \in 1..get_pack_factor(c_bits, 32),
        c1 \in 0..(Pow2(c_bits) - 1),
        c2 \in CodeSamples(c_bits) :
       LET el == get_pack_factor(c_bits, 32)
           p2 == (p1 % el) + 1
       IN c_codes = [k \in 1..el |->
                       IF k = p1 THEN c1 ELSE IF k = p2 THEN c2 ELSE base]
  /\ c_packed = << >>
  /\ c_decoded = << >>

CodecEncode ==
  /\ c_pc = "start"
  /\ c_packed' = pack_store(<< >>, OutType(c_bits), 0, 0, c_bits, c_codes)
  /\ c_pc' = "packed"
  /\ UNCHANGED <<c_bits, c_codes, c_decoded, quantVars, kernVars, matmulVars>>

CodecDecode ==
  /\ c_pc = "packed"
  /\ c_decoded' = decode_bytes(c_bits, c_packed, 0)
  /\ c_pc' = "decoded"
  /\ UNCHANGED <<c_bits, c_codes, c_packed, quantVars, kernVars, matmulVars>>

CodecNext == CodecEncode \/ CodecDecode

\* the initial states: the other components are idle
InitCodec == CodecInit /\ QuantOff /\ KernOff /\ MatmulOff

SpecCodec == InitCodec /\ [][CodecNext]_vars

\* C1: for every bit width and every tuple of pack_factor codes in range, the
\* bytes written by the encoder decode back to the same codes in the same order.
PackUnpackInverse ==
  c_pc = "decoded" => c_decoded = c_codes

\* a 5-bit pack whose codes straddle byte boundaries has been decoded
PackUnpackWitness ==
  /\ c_pc = "decoded"
  /\ c_bits = 5
  /\ c_codes[2] = 31
  /\ c_codes[3] = 30
  /\ BufLen(c_packed) = 5
  /\ c_decoded[2] = 31
(***************************************************************************)
(* Claims about the quantizer                                              *)
(***************************************************************************)
QuantDone == q_pc = "done" /\ q_error = "none"

\* groups quantize was asked for, by the length of the input
QGroups == 0..((BufLen(q_w) \div q_group_size) - 1)

\* the extremum of larger magnitude of group g: w_min when |w_min| > |w_max|
QEdge(g) ==
  LET lo == group_min(q_w, g * q_group_size, q_group_size)
      hi == group_max(q_w, g * q_group_size, q_group_size)
  IN IF Abs(lo) > Abs(hi) THEN lo ELSE hi

\* den * (code * scale + bias - v) for element e of the input: the error of
\* the value reconstructed from the stored code, scale and bias, times den
QErrNum(e) ==
  LET g == e \div q_group_size
      scale == At(q_scales, g)
      bias == At(q_biases, g)
  IN code_at(q_bits, q_out, e) * scale[1] + (bias - At(q_w, e)) * scale[2]

\* round((v - bias) / scale) of element e, before clamping
QRound(e) ==
  LET g == e \div q_group_size
      scale == At(q_scales, g)
  IN Rint((At(q_w, e) - At(q_biases, g)) * scale[2], scale[1])

QElems == 0..((BufLen(q_w) \div q_group_size) * q_group_size - 1)

\* C2 as stated: in every group, an element equal to the extremum of larger
\* magnitude dequantizes (code * scale + bias) to exactly itself.
ExtremumRoundTripAlways ==
  QuantDone =>
    \A e \in QElems :
      At(q_w, e) = QEdge(e \div q_group_size) => QErrNum(e) = 0

\* C2 amended: the extremum of larger magnitude dequantizes to exactly itself
\* in every group where q0 = round(edge / scale) is not 0 or edge is 0; in a
\* group with q0 = 0 and edge # 0 it dequantizes to 0.
ExtremumRoundTrip ==
  QuantDone =>
    \A e \in QElems :
      LET g == e \div q_group_size
          gp == group_params(q_w, g * q_group_size, q_bits, q_group_size)
      IN At(q_w, e) = QEdge(g) =>
           IF gp.q0 # 0 \/ QEdge(g) = 0
           THEN QErrNum(e) = 0
           ELSE code_at(q_bits, q_out, e) * At(q_scales, g)[1] = 0
                /\ At(q_biases, g) = 0

\* a group anchored at its minimum -600 (maximum 400, q0 # 0) has been
\* quantized
ExtremumRoundTripWitness ==
  /\ QuantDone
  /\ \E g \in QGroups :
       /\ QEdge(g) = -600
       /\ group_max(q_w, g * q_group_size, q_group_size) = 400
       /\ At(q_biases, g) = -600
       /\ group_params(q_w, g * q_group_size, q_bits, q_group_size).q0 # 0

\* C3 as stated: every element is reconstructed to within |scale| / 2.
HalfStepAlways ==
  QuantDone =>
    \A e \in QElems :
      2 * Abs(QErrNum(e)) <= Abs(At(q_scales, e \div q_group_size)[1])

\* C3 amended: an element whose rounded quotient round((v - bias) / scale) is
\* within [0, 2^bits - 1] is reconstructed to within |scale| / 2; an element
\* whose code is clamped is reconstructed to within |scale|.
HalfStepUnclamped ==
  QuantDone =>
    \A e \in QElems :
      LET num == Abs(At(q_scales, e \div q_group_size)[1])
      IN /\ QRound(e) \in 0..(Pow2(q_bits) - 1) => 2 * Abs(QErrNum(e)) <= num
         /\ Abs(QErrNum(e)) <= num

\* a quantized group holding both a clamped element and an element strictly
\* inside the code range that is not the anchor
HalfStepWitness ==
  /\ QuantDone
  /\ \E e1 \in QElems, e2 \in QElems :
       /\ e1 \div q_group_size = e2 \div q_group_size
       /\ QRound(e1) > Pow2(q_bits) - 1
       /\ QRound(e2) \in 1..(Pow2(q_bits) - 2)
       /\ QErrNum(e2) # 0

\* C6: an input whose length is not a multiple of group_size is rejected with
\* an error and no packed codes, scales or biases are produced.
RejectsPartialGroup ==
  (q_pc = "done" /\ BufLen(q_w) % q_group_size # 0) =>
    /\ q_error # "none"
    /\ q_out = << >>
    /\ q_scales = << >>
    /\ q_biases = << >>

(***************************************************************************)
(* Claims about the kernels                                                *)
(***************************************************************************)
\* the sum over k of x[m,k] * (scale * code + bias) with the weight, scales
\* and biases row-major K x N and K x (N / group_size)
QmmRef(in, m, n) ==
  LET gpr == in.N \div in.group_size
      Term(acc, k) ==
        acc + At(in.x, m * in.K + k)
              * (At(in.scales, k * gpr + (n \div in.group_size))
                   * At(in.codes, k * in.N + n)
                 + At(in.biases, k * gpr + (n \div in.group_size)))
  IN Loop(Term, 0, 0, in.K)

\* the same with the weight row-major N x K and scales N x (K / group_size)
QmmTRef(in, m, n) ==
  LET gpr == in.K \div in.group_size
      Term(acc, k) ==
        acc + At(in.x, m * in.K + k)
              * (At(in.scales, n * gpr + (k \div in.group_size))
                   * At(in.codes, n * in.K + k)
                 + At(in.biases, n * gpr + (k \div in.group_size)))
  IN Loop(Term, 0, 0, in.K)

\* C7: _qmm writes output[m,n] = sum_k x[m,k] * (scale[k, n div group_size] *
\* code[k,n] + bias[k, n div group_size]) for every m < M and n < N, the
\* cursors restarting for every row m.
QmmResult ==
  (k_pc = "done" /\ k_in.kernel = "qmm") =>
    \A m \in 0..(k_in.M - 1), n \in 0..(k_in.N - 1) :
      At(k_res, m * k_in.N + n) = QmmRef(k_in, m, n)

\* _qmm has run on two activation rows, two weight rows and two groups per row
QmmWitness ==
  /\ k_pc = "done"
  /\ k_in.kernel = "qmm"
  /\ k_in.M = 2 /\ k_in.K = 2 /\ k_in.N = 2 * k_in.group_size
  /\ k_in.bits = 3
  /\ At(k_res, k_in.N + 1) # 0
  /\ At(k_res, k_in.N + 1) # At(k_res, 1)

\* C8: _qmm_t writes output[m,n] = sum_k x[m,k] * (scale[n, k div group_size]
\* * code[n,k] + bias[n, k div group_size]) for every m < M and n < N.
QmmTResult ==
  (k_pc = "done" /\ k_in.kernel = "qmm_t") =>
    \A m \in 0..(k_in.M - 1), n \in 0..(k_in.N - 1) :
      At(k_res, m * k_in.N + n) = QmmTRef(k_in, m, n)

\* _qmm_t has run on two activation rows, two weight rows and two groups per row
QmmTWitness ==
  /\ k_pc = "done"
  /\ k_in.kernel = "qmm_t"
  /\ k_in.M = 2 /\ k_in.N = 2 /\ k_in.K = 2 * k_in.group_size
  /\ k_in.bits = 5
  /\ At(k_res, 3) # 0
  /\ At(k_res, 3) # At(k_res, 0)


\* the <<activation index, code>> pairs of a sequence of SIMD steps, lane by
\* lane in the order of the steps
SimdLanes(chunks, S) ==
  [i \in 1..(S * Len(chunks)) |->
     LET c == chunks[((i - 1) \div S) + 1]
         l == (i - 1) % S
     IN <<c.x + l, c.codes[l + 1]>>]

\* every step after the first of an output element starts S activations and
\* S / (32 / bits) words after the step before it
SimdStepsAdvance(chunks, S, bits) ==
  \A c \in 1..(Len(chunks) - 1) :
    /\ chunks[c + 1].x - chunks[c].x = S
    /\ chunks[c + 1].w - chunks[c].w = S \div (32 \div bits)

\* the steps of every group of an output element consume group_size
\* activations
SimdGroupConsumes(chunks, S, groups, group_size) ==
  \A g \in 0..(groups - 1) :
    S * Cardinality({c \in 1..Len(chunks) : chunks[c].g = g}) = group_size

\* C11: for bits 4 and 8 and SIMD width 8, _qmm_t_simd run on the arguments
\* of _qmm_t (a weight packed in little-endian 32-bit words) multiplies the
\* same codes with the same activations in the same order, stores the same
\* output[m,n] in exact arithmetic, and every step consumes S activations
\* and S / (32 / bits) words, a group consuming group_size activations.
SimdAgrees ==
  k_pc = "compared" =>
    /\ k_simd.err = "none"
    /\ k_simd.res = k_res
    /\ Len(k_simd.steps) = k_in.M * k_in.N
    /\ Len(k_decoded) = k_in.M * k_in.N
    /\ \A o \in 1..(k_in.M * k_in.N) :
         /\ SimdLanes(k_simd.steps[o], KernelSimdWidth) = k_decoded[o]
         /\ SimdStepsAdvance(k_simd.steps[o], KernelSimdWidth, k_in.bits)
         /\ SimdGroupConsumes(k_simd.steps[o], KernelSimdWidth,
                              k_in.K \div k_in.group_size, k_in.group_size)

\* both kernels have run on 8-bit codes, two activation rows, two weight rows
\* and two groups of 64 per row: 16 SIMD steps per output element
SimdAgreesWitness ==
  /\ k_pc = "compared"
  /\ k_in.bits = 8
  /\ k_in.M = 2 /\ k_in.N = 2 /\ k_in.K = 2 * k_in.group_size
  /\ k_in.group_size = 64
  /\ Len(k_simd.steps[4]) = 16
  /\ Len(k_decoded[4]) = 128
  /\ At(k_simd.res, 3) # 0
  /\ At(k_simd.res, 3) # At(k_simd.res, 0)
(***************************************************************************)
(* Claims about the matmul entry points                                    *)
(***************************************************************************)
MatmulDone == m_pc = "done"

ValidConfig ==
  /\ m_in.bits_ \in BitWidths
  /\ m_in.group_size_ \in GroupSizes
  /\ FloatDtype(m_in.x.dtype)

\* rows of one activation batch
RowsM == IF Ndim(m_in.x) > 1 THEN ShapeEnd(m_in.x, 2) ELSE 1

\* element (b, r, c) of an input array, b taken modulo a batch dimension and
\* ignored by an array without one
Elem(arr, b, r, c) ==
  LET nd == Ndim(arr)
  IN At(arr.data,
        c * arr.strides[nd]
        + (IF nd >= 2 THEN r * arr.strides[nd - 1] ELSE 0)
        + (IF nd >= 3 THEN (b % arr.shape[nd - 2]) * arr.strides[nd - 2]
           ELSE 0))

\* the code at (r, c) of weight batch b
CodeElem(b, r, c) ==
  LET w == m_in.w
      C == IF m_in.transpose_ THEN m_in.K ELSE m_in.N
      stored == IF Ndim(w) >= 3
                THEN ((b % w.shape[1]) * w.strides[1])
                       \div (w.shape[2] * w.shape[3])
                ELSE 0
  IN m_in.codes[stored][r * C + c + 1]

\* the quantized matmul of activation batch xb with weight batch wb at (m, n)
MatmulRef(xb, wb, m, n) ==
  LET gs == m_in.group_size_
      Term(acc, k) ==
        LET r == IF m_in.transpose_ THEN n ELSE k
            c == IF m_in.transpose_ THEN k ELSE n
        IN acc + Elem(m_in.x, xb, m, k)
                 * (Elem(m_in.scales, wb, r, c \div gs) * CodeElem(wb, r, c)
                    + Elem(m_in.biases, wb, r, c \div gs))
  IN Loop(Term, 0, 0, m_in.K)

\* output block i is the quantized matmul of batches xb and wb
BlockIs(i, xb, wb) ==
  \A m \in 0..(RowsM - 1), n \in 0..(m_in.N - 1) :
    At(m_out, i * RowsM * m_in.N + m * m_in.N + n) = MatmulRef(xb, wb, m, n)

IndexAt(arr, i) == At(arr.data, i * arr.strides[1])

\* C4: a matmul whose bits or group_size is unsupported raises
\* invalid_argument and leaves every element of the output unwritten,
\* whatever the shapes, batch count or index-array length.
RejectsInvalidConfig ==
  (MatmulDone /\ (m_in.bits_ \notin BitWidths
                  \/ m_in.group_size_ \notin GroupSizes)) =>
    /\ m_error = "invalid_argument"
    /\ \A j \in 1..Len(m_out) : m_out[j] = Unwritten

\* C5: in the gathered matmul output block i is the quantized matmul of
\* activation batch lhs_indices[i] with weight batch rhs_indices[i].
GatherSelects ==
  (MatmulDone /\ m_in.op = "GatherQMM" /\ ValidConfig) =>
    /\ m_error = "none"
    /\ \A i \in 0..(Size(m_in.lhs_indices) - 1) :
         BlockIs(i, IndexAt(m_in.lhs_indices, i), IndexAt(m_in.rhs_indices, i))

\* the gathered matmul has run on lhs_indices [0,0,1] and rhs_indices [1,0,0]
GatherSelectsWitness ==
  /\ MatmulDone
  /\ m_in.op = "GatherQMM"
  /\ m_error = "none"
  /\ m_in.lhs_indices.data = <<0, 0, 1>>
  /\ m_in.rhs_indices.data = <<1, 0, 0>>
  /\ m_in.rhs_indices.strides = <<1>>
  /\ RowsM = 2
  /\ Len(m_calls) = 3
  /\ SubSeq(m_out, 1, 2 * m_in.N) # SubSeq(m_out, 2 * m_in.N + 1, 4 * m_in.N)
  /\ SubSeq(m_out, 1, 2 * m_in.N) # SubSeq(m_out, 4 * m_in.N + 1, 6 * m_in.N)

DenseBatches ==
  (MatmulDone /\ m_in.op = "QuantizedMatmul" /\ ValidConfig) =>
    LET batch_size == Size(m_in.x) \div (RowsM * m_in.K)
    IN /\ m_error = "none"
       /\ Len(m_calls) = batch_size
       /\ \A i \in 0..(batch_size - 1) :
            /\ m_calls[i + 1].at.result = i * RowsM * m_in.N
            /\ BlockIs(i, i, i)
            /\ (Ndim(m_in.w) <= 2 \/ m_in.w.shape[1] = 1) =>
                 /\ m_calls[i + 1].at.w = 0
                 /\ m_calls[i + 1].at.scales = 0
                 /\ m_calls[i + 1].at.biases = 0

\* the dense driver has run two activation batches against one 2-D weight
DenseBatchesWitness ==
  /\ MatmulDone
  /\ m_in.op = "QuantizedMatmul"
  /\ m_error = "none"
  /\ Ndim(m_in.w) = 2
  /\ m_in.x.shape[1] = 2 /\ Ndim(m_in.x) = 3
  /\ RowsM = 2
  /\ Len(m_calls) = 2
  /\ m_calls[2].at.x > 0 /\ m_calls[2].at.w = 0
  /\ SubSeq(m_out, 1, 2 * m_in.N) # SubSeq(m_out, 2 * m_in.N + 1, 4 * m_in.N)


\* the number of trips of the driver's loop over batches
Batches ==
  IF m_in.op = "GatherQMM"
  THEN Size(m_in.lhs_indices)
  ELSE Size(m_in.x) \div (ShapeEnd(m_in.x, 1) * RowsM)

\* C12: every kernel specialization a task of QuantizedMatmul::eval_cpu or
\* GatherQMM::eval_cpu calls is instantiated with bits = bits_ and group_size
\* = group_size_, and it is bits_ that the check on the bit width tests (and
\* group_size_ that the check on the group size tests), although the two
\* integers change parameter names twice on the way.
ParameterRouting ==
  MatmulDone =>
    /\ \A i \in 1..Len(m_calls) :
         /\ m_calls[i].bits = m_in.bits_
         /\ m_calls[i].group_size = m_in.group_size_
    /\ m_what = BitsMessage => m_in.bits_ \notin BitWidths
    /\ m_what = GroupSizeMessage =>
         m_in.bits_ \in BitWidths /\ m_in.group_size_ \notin GroupSizes
    /\ (FloatDtype(m_in.x.dtype) /\ Batches >= 1) =>
         /\ m_in.bits_ \notin BitWidths => m_what = BitsMessage
         /\ (m_in.bits_ \in BitWidths /\ m_in.group_size_ \notin GroupSizes)
              => m_what = GroupSizeMessage
         /\ (m_in.bits_ \in BitWidths /\ m_in.group_size_ \in GroupSizes)
              => Len(m_calls) = Batches

\* a task has called a kernel for bits_ = 3 and group_size_ = 64
ParameterRoutingWitness ==
  /\ MatmulDone
  /\ m_in.bits_ = 3
  /\ m_in.group_size_ = 64
  /\ m_error = "none"
  /\ Len(m_calls) >= 1
  /\ m_calls[1].bits = 3
  /\ m_calls[1].group_size = 64

(***************************************************************************)
(* Claims about the command encoder                                        *)
(***************************************************************************)
\* the arrays the task of fast::AffineQuantize::eval_cpu has stored to
QuantWritten ==
  {a \in {"out", "scales", "biases"} :
     [out |-> q_out, scales |-> q_scales, biases |-> q_biases][a] # << >>}

\* the arrays a matmul task has stored to: a kernel stores through its
\* result pointer alone, which the drivers point into out
MatmulWritten == IF Len(m_calls) > 0 THEN {"out"} ELSE {}

\* the arrays in written are registered as outputs and not as inputs
Confined(written, enc) ==
  \A a \in written : a \in enc.outputs /\ a \notin enc.inputs

\* C13: every array the task of QuantizedMatmul::eval_cpu, GatherQMM::eval_cpu
\* or fast::AffineQuantize::eval_cpu writes was registered with
\* set_output_array before dispatch, and no array registered with
\* set_input_array is written.
WritesConfined ==
  /\ q_pc = "done" => Confined(QuantWritten, q_encoder)
  /\ m_pc = "done" => Confined(MatmulWritten, m_encoder)
====
